---- MODULE Spec2Model ----
(***************************************************************************)
(* Model of update_versions.py: the stable-version checker of the          *)
(* artifact-hub packages tor, unbound, udp2raw and wghttp.                 *)
(*                                                                         *)
(* A Python str is a sequence of one-character strings, so that prefix     *)
(* tests, substring tests, the regular expressions and the digit-run       *)
(* extraction are computed character by character as the code does.       *)
(* Optional[str] is a record [some, val].  A Dict[str, str] is a sequence  *)
(* of <<key, value>> pairs with distinct keys, in insertion order.         *)
(***************************************************************************)
EXTENDS Integers, Sequences, FiniteSets, TLC

VARIABLES
    pc,          \* position of main: "read", "fetch", "pick", "check", "report", "write", "done"; "idle" when main is not running
    pkg,         \* index in PACKAGES of the package resolve_latest_versions is working on
    check_only,  \* args.check_only
    file,        \* the JSON value stored in args.file
    remote,      \* package name -> the page responses its tag endpoint serves (page 1, 2, ...)
    current,     \* main: current
    latest,      \* resolve_latest_versions: latest
    tags,        \* fetch_*_tags: tags
    page,        \* fetch_*_tags: page
    updates,     \* main: updates
    exit_code,   \* value returned by main, -1 while it runs
    stdout,      \* lines printed to standard output, in order
    stderr,      \* lines printed to standard error, in order
    trace,       \* I/O events of the current run, in order
    run,         \* number of the current invocation of main
    file0,       \* content of the store file when the current run started
    prev,        \* outcome of the previous run
    call         \* frame of a direct call of is_stable_tag, a normalizer or pick_latest

vars == <<pc, pkg, check_only, file, remote, current, latest, tags, page, updates,
          exit_code, stdout, stderr, trace, run, file0, prev, call>>

mainvars == <<pc, pkg, check_only, file, remote, current, latest, tags, page, updates,
              exit_code, stdout, stderr, trace, run, file0, prev>>

(***************************************************************************)
(* Bounds of the model.                                                    *)
(***************************************************************************)
MaxRuns == 2          \* invocations of main on the same store and remotes
MaxStoreEntries == 2  \* members of the JSON object in the store file
MaxRemoteLen == 7     \* pages a tag endpoint serves in the fetch specification
MaxBodyLen == 5       \* characters after the prefix of a generated tag
MaxTags == 3          \* tags handed to a direct call of pick_latest

(***************************************************************************)
(* Strings.                                                                *)
(***************************************************************************)
None == [some |-> FALSE, val |-> <<>>]
Some(v) == [some |-> TRUE, val |-> v]

DIGITS == <<"0", "1", "2", "3", "4", "5", "6", "7", "8", "9">>

UPPER == <<"A", "B", "C", "D", "E", "F", "G", "H", "I", "J", "K", "L", "M",
           "N", "O", "P", "Q", "R", "S", "T", "U", "V", "W", "X", "Y", "Z">>

LOWER == <<"a", "b", "c", "d", "e", "f", "g", "h", "i", "j", "k", "l", "m",
           "n", "o", "p", "q", "r", "s", "t", "u", "v", "w", "x", "y", "z">>

IsDigit(c) == \E i \in 1..10 : DIGITS[i] = c

DigitVal(c) == (CHOOSE i \in 1..10 : DIGITS[i] = c) - 1

LowerChar(c) ==
    IF \E i \in 1..26 : UPPER[i] = c
    THEN LOWER[CHOOSE i \in 1..26 : UPPER[i] = c]
    ELSE c

str_lower(s) == [i \in 1..Len(s) |-> LowerChar(s[i])]

str_contains(sub, s) ==
    \E i \in 0..(Len(s) - Len(sub)) : SubSeq(s, i + 1, i + Len(sub)) = sub

str_startswith(s, prefix) ==
    /\ Len(prefix) <= Len(s)
    /\ SubSeq(s, 1, Len(prefix)) = prefix

SKIP_KEYWORDS ==
    << <<"a", "l", "p", "h", "a">>,
       <<"b", "e", "t", "a">>,
       <<"r", "c">>,
       <<"t", "e", "s", "t">>,
       <<"p", "r", "e">>,
       <<"p", "r", "e", "v", "i", "e", "w">>,
       <<"d", "e", "v">>,
       <<"s", "n", "a", "p", "s", "h", "o", "t">> >>

is_stable_tag_nolower(tag) ==
    ~ \E k \in 1..Len(SKIP_KEYWORDS) : str_contains(SKIP_KEYWORDS[k], tag)

is_stable_tag(tag) ==
    LET lowered == str_lower(tag)
    IN  ~ \E k \in 1..Len(SKIP_KEYWORDS) : str_contains(SKIP_KEYWORDS[k], lowered)

(***************************************************************************)
(* re.fullmatch(r"\d+(?:\.\d+)+", s) as the automaton of the expression:   *)
(* state 0 before the first digit, 1 inside the first group, 2 right after *)
(* a dot, 3 inside a later group (the only accepting state), -1 dead.      *)
(***************************************************************************)
dotted_step_any(q, c) ==
    CASE q = 0 -> IF IsDigit(c) THEN 3 ELSE -1
      [] q = 2 -> IF IsDigit(c) THEN 3 ELSE -1
      [] q = 3 -> IF IsDigit(c) THEN 3 ELSE IF c = "." THEN 2 ELSE -1
      [] OTHER -> -1

dotted_step(q, c) ==
    CASE q = 0 -> IF IsDigit(c) THEN 1 ELSE -1
      [] q = 1 -> IF IsDigit(c) THEN 1 ELSE IF c = "." THEN 2 ELSE -1
      [] q = 2 -> IF IsDigit(c) THEN 3 ELSE -1
      [] q = 3 -> IF IsDigit(c) THEN 3 ELSE IF c = "." THEN 2 ELSE -1
      [] OTHER -> -1

RECURSIVE dotted_run(_, _, _)
dotted_run(s, i, q) ==
    IF i > Len(s) THEN q ELSE dotted_run(s, i + 1, dotted_step(q, s[i]))

fullmatch_dotted(s) == dotted_run(s, 1, 0) = 3

TOR_PREFIX == <<"t", "o", "r", "-">>
UNBOUND_PREFIX == <<"r", "e", "l", "e", "a", "s", "e", "-">>
WGHTTP_PREFIX == <<"v">>

normalize_tor_tag(tag) ==
    IF ~ str_startswith(tag, TOR_PREFIX) THEN None
    ELSE IF ~ fullmatch_dotted(SubSeq(tag, Len(TOR_PREFIX) + 1, Len(tag))) THEN None
    ELSE Some(tag)

normalize_unbound_tag(tag) ==
    IF ~ str_startswith(tag, UNBOUND_PREFIX) THEN None
    ELSE IF ~ fullmatch_dotted(SubSeq(tag, Len(UNBOUND_PREFIX) + 1, Len(tag))) THEN None
    ELSE Some(tag)

normalize_udp2raw_tag(tag) ==
    IF ~ fullmatch_dotted(tag) THEN None
    ELSE Some(tag)

normalize_wghttp_tag(tag) ==
    IF ~ (str_startswith(tag, WGHTTP_PREFIX)
          /\ fullmatch_dotted(SubSeq(tag, Len(WGHTTP_PREFIX) + 1, Len(tag)))) THEN None
    ELSE Some(tag)

PACKAGES == <<"tor", "unbound", "udp2raw", "wghttp">>

PackageSet == {PACKAGES[i] : i \in 1..Len(PACKAGES)}

\* The normalizer resolve_latest_versions passes to pick_latest for each package.
normalizer(p, tag) ==
    CASE p = "tor" -> normalize_tor_tag(tag)
      [] p = "unbound" -> normalize_unbound_tag(tag)
      [] p = "udp2raw" -> normalize_udp2raw_tag(tag)
      [] p = "wghttp" -> normalize_wghttp_tag(tag)

(***************************************************************************)
(* version_key: re.findall(r"\d+", tag), each run converted with int().    *)
(***************************************************************************)
RECURSIVE int_of(_, _, _)
int_of(part, i, acc) ==
    IF i > Len(part) THEN acc ELSE int_of(part, i + 1, acc * 10 + DigitVal(part[i]))

RECURSIVE findall_digits(_, _, _, _)
findall_digits(s, i, cur, out) ==
    IF i > Len(s) THEN (IF cur = <<>> THEN out ELSE Append(out, cur))
    ELSE IF IsDigit(s[i]) THEN findall_digits(s, i + 1, Append(cur, s[i]), out)
    ELSE IF cur = <<>> THEN findall_digits(s, i + 1, <<>>, out)
    ELSE findall_digits(s, i + 1, <<>>, Append(out, cur))

version_key(tag) ==
    LET parts == findall_digits(tag, 1, <<>>, <<>>)
    IN  [i \in 1..Len(parts) |-> int_of(parts[i], 1, 0)]

\* Python's ordering of tuples of int: a < b.
RECURSIVE tuple_lt(_, _)
tuple_lt(a, b) ==
    IF a = <<>> THEN b # <<>>
    ELSE IF b = <<>> THEN FALSE
    ELSE IF a[1] < b[1] THEN TRUE
    ELSE IF a[1] > b[1] THEN FALSE
    ELSE tuple_lt(Tail(a), Tail(b))

\* Python's ordering of str restricted to the characters of the model: a < b.
CharRank(c) ==
    IF c = "-" THEN 1
    ELSE IF c = "." THEN 2
    ELSE IF IsDigit(c) THEN 3 + DigitVal(c)
    ELSE IF \E i \in 1..26 : UPPER[i] = c THEN 20 + (CHOOSE i \in 1..26 : UPPER[i] = c)
    ELSE IF \E i \in 1..26 : LOWER[i] = c THEN 50 + (CHOOSE i \in 1..26 : LOWER[i] = c)
    ELSE 0

str_key(tag) == [i \in 1..Len(tag) |-> CharRank(tag[i])]

\* The stable, normalized candidates pick_latest collects, in input order.
RECURSIVE candidates_of(_, _, _, _)
candidates_of(ts, p, i, out) ==
    IF i > Len(ts) THEN out
    ELSE IF ~ is_stable_tag(ts[i]) THEN candidates_of(ts, p, i + 1, out)
    ELSE IF ~ normalizer(p, ts[i]).some THEN candidates_of(ts, p, i + 1, out)
    ELSE candidates_of(ts, p, i + 1, Append(out, normalizer(p, ts[i]).val))

\* max(candidates, key=...): the first element whose key no other element exceeds.
RECURSIVE max_by_str(_, _, _)
max_by_str(cands, i, best) ==
    IF i > Len(cands) THEN best
    ELSE IF tuple_lt(str_key(best), str_key(cands[i])) THEN max_by_str(cands, i + 1, cands[i])
    ELSE max_by_str(cands, i + 1, best)

RECURSIVE max_by_version_key(_, _, _)
max_by_version_key(cands, i, best) ==
    IF i > Len(cands) THEN best
    ELSE IF tuple_lt(version_key(best), version_key(cands[i]))
         THEN max_by_version_key(cands, i + 1, cands[i])
    ELSE max_by_version_key(cands, i + 1, best)

pick_max_str(cands) == max_by_str(cands, 2, cands[1])

pick_max(cands) == max_by_version_key(cands, 2, cands[1])

candidates(ts, p) == candidates_of(ts, p, 1, <<>>)

pick_latest(ts, p) ==
    LET cs == candidates(ts, p)
    IN  IF cs = <<>> THEN None ELSE Some(pick_max(cs))

(***************************************************************************)
(* Dict[str, str]: sequences of <<key, value>> pairs.                      *)
(***************************************************************************)
dict_has(d, k) == \E i \in 1..Len(d) : d[i][1] = k

dict_get(d, k) ==
    IF dict_has(d, k) THEN Some(d[CHOOSE i \in 1..Len(d) : d[i][1] = k][2]) ELSE None

dict_set(d, k, v) ==
    IF dict_has(d, k)
    THEN [i \in 1..Len(d) |-> IF d[i][1] = k THEN <<k, v>> ELSE d[i]]
    ELSE Append(d, <<k, v>>)

(***************************************************************************)
(* The store file.  Its content is the JSON value it decodes to: kind      *)
(* "invalid" is a file that cannot be read or decoded, "nonobject" a       *)
(* top-level value that is no object, "object" an object whose members     *)
(* carry a string (str = TRUE) or a value of another type.                 *)
(***************************************************************************)
Member(k, isstr, v) == [key |-> k, str |-> isstr, val |-> v]

RECURSIVE string_members(_, _, _)
string_members(ms, i, out) ==
    IF i > Len(ms) THEN out
    ELSE IF ms[i].str THEN string_members(ms, i + 1, dict_set(out, ms[i].key, ms[i].val))
    ELSE string_members(ms, i + 1, out)

read_versions(f) ==
    IF f.kind = "invalid" THEN [ok |-> FALSE, err |-> "read", val |-> <<>>]
    ELSE IF f.kind # "object" THEN [ok |-> FALSE, err |-> "not an object", val |-> <<>>]
    ELSE [ok |-> TRUE, err |-> "", val |-> string_members(f.members, 1, <<>>)]

write_versions(versions) ==
    [kind |-> "object",
     members |-> [i \in 1..Len(versions) |-> Member(versions[i][1], TRUE, versions[i][2])]]

(***************************************************************************)
(* The tag endpoints.  A response is a transport or decoding error, a JSON *)
(* value that is no list, or a list of items; an item is a dict with a     *)
(* string "name", a dict without one, or no dict.  Past the last page an   *)
(* endpoint serves the empty list.                                         *)
(***************************************************************************)
max_pages == 6

ErrorPage == [kind |-> "error", items |-> <<>>]
NonListPage == [kind |-> "nonlist", items |-> <<>>]
ListPage(items) == [kind |-> "list", items |-> items]

NameItem(s) == [dict |-> TRUE, strname |-> TRUE, name |-> s]
NoNameItem == [dict |-> TRUE, strname |-> FALSE, name |-> <<>>]
NonDictItem == [dict |-> FALSE, strname |-> FALSE, name |-> <<>>]

fetch_json(p, n) ==
    IF n <= Len(remote[p]) THEN remote[p][n] ELSE ListPage(<<>>)

fetch_raises_never(data) == FALSE

fetch_raises(data) == data.kind = "error"

page_ends_loop_nonlist(data) == data.kind # "list"

page_ends_loop(data) == data.kind # "list" \/ data.items = <<>>

RECURSIVE page_names(_, _, _)
page_names(items, i, out) ==
    IF i > Len(items) THEN out
    ELSE IF items[i].dict /\ items[i].strname
         THEN page_names(items, i + 1, Append(out, items[i].name))
    ELSE page_names(items, i + 1, out)

(***************************************************************************)
(* check_updates and the merge of main.                                    *)
(***************************************************************************)
RECURSIVE check_updates_from(_, _, _, _)
check_updates_from(cur, lat, i, out) ==
    IF i > Len(PACKAGES) THEN out
    ELSE LET c == dict_get(cur, PACKAGES[i])
             l == dict_get(lat, PACKAGES[i])
         IN  IF ~ c.some \/ ~ l.some THEN check_updates_from(cur, lat, i + 1, out)
             ELSE IF c.val # l.val
                  THEN check_updates_from(cur, lat, i + 1,
                                          Append(out, <<PACKAGES[i], c.val, l.val>>))
             ELSE check_updates_from(cur, lat, i + 1, out)

RECURSIVE check_updates_absent(_, _, _, _)
check_updates_absent(cur, lat, i, out) ==
    IF i > Len(PACKAGES) THEN out
    ELSE LET c == dict_get(cur, PACKAGES[i])
             l == dict_get(lat, PACKAGES[i])
         IN  IF ~ l.some THEN check_updates_absent(cur, lat, i + 1, out)
             ELSE IF c.val # l.val
                  THEN check_updates_absent(cur, lat, i + 1,
                                            Append(out, <<PACKAGES[i], c.val, l.val>>))
             ELSE check_updates_absent(cur, lat, i + 1, out)

RECURSIVE check_updates_present(_, _, _, _)
check_updates_present(cur, lat, i, out) ==
    IF i > Len(PACKAGES) THEN out
    ELSE LET c == dict_get(cur, PACKAGES[i])
             l == dict_get(lat, PACKAGES[i])
         IN  IF ~ c.some \/ ~ l.some THEN check_updates_present(cur, lat, i + 1, out)
             ELSE check_updates_present(cur, lat, i + 1,
                                        Append(out, <<PACKAGES[i], c.val, l.val>>))

check_updates_nodiff(cur, lat) == check_updates_present(cur, lat, 1, <<>>)

check_updates_all(cur, lat) == check_updates_absent(cur, lat, 1, <<>>)

check_updates(cur, lat) == check_updates_from(cur, lat, 1, <<>>)

RECURSIVE merge_from(_, _, _)
merge_from(merged, ups, i) ==
    IF i > Len(ups) THEN merged
    ELSE merge_from(dict_set(merged, ups[i][1], ups[i][3]), ups, i + 1)

RECURSIVE merge_from_cur(_, _, _)
merge_from_cur(merged, ups, i) ==
    IF i > Len(ups) THEN merged
    ELSE merge_from_cur(dict_set(merged, ups[i][1], ups[i][2]), ups, i + 1)

merge_keeps_current(cur, ups) == merge_from_cur(cur, ups, 1)

merge_updates(cur, ups) == merge_from(cur, ups, 1)

pick_fails_never(r) == FALSE

pick_fails(r) == ~ r.some

writes_always(co) == TRUE

writes_store(co) == ~ co

(***************************************************************************)
(* Output lines and I/O events.                                            *)
(***************************************************************************)
Line(text, p, cur, lat) == [text |-> text, pkg |-> p, cur |-> cur, lat |-> lat]

UpdateLine(u) == Line("- pkg: cur -> lat", u[1], u[2], u[3])

Event(what, p, n) == [what |-> what, pkg |-> p, page |-> n]

NoPrev == [ran |-> FALSE, exit_code |-> -1, check_only |-> FALSE, wrote |-> FALSE]

NoCall == [fn |-> "none", pkg |-> "", tags |-> <<>>, done |-> FALSE,
           stable |-> FALSE, ret |-> None]

(***************************************************************************)
(* main, one action per step.                                              *)
(***************************************************************************)
\* main: current = read_versions(args.file), then resolve_latest_versions starts.
ReadVersions ==
    /\ pc = "read"
    /\ trace' = Append(trace, Event("read", "", 0))
    /\ LET r == read_versions(file)
       IN  IF ~ r.ok
           THEN /\ stderr' = Append(stderr, Line("Error", "", <<>>, <<>>))
                /\ exit_code' = 2
                /\ pc' = "done"
                /\ UNCHANGED <<current, pkg, page, tags, latest>>
           ELSE /\ current' = r.val
                /\ pc' = "fetch"
                /\ pkg' = 1
                /\ page' = 1
                /\ tags' = <<>>
                /\ latest' = <<>>
                /\ UNCHANGED <<stderr, exit_code>>
    /\ UNCHANGED <<check_only, file, remote, updates, stdout, run, file0, prev, call>>

\* One iteration of the page loop of fetch_tor_tags / fetch_github_tags.
FetchPage(p) ==
    /\ pc = "fetch"
    /\ PACKAGES[pkg] = p
    /\ page <= max_pages
    /\ trace' = Append(trace, Event("request", p, page))
    /\ LET data == fetch_json(p, page)
       IN  IF fetch_raises(data)
           THEN /\ stderr' = Append(stderr, Line("Error", p, <<>>, <<>>))
                /\ exit_code' = 2
                /\ pc' = "done"
                /\ UNCHANGED <<tags, page>>
           ELSE IF page_ends_loop(data)
           THEN /\ pc' = "pick"
                /\ UNCHANGED <<tags, page, stderr, exit_code>>
           ELSE /\ tags' = page_names(data.items, 1, tags)
                /\ page' = page + 1
                /\ pc' = IF page + 1 > max_pages THEN "pick" ELSE "fetch"
                /\ UNCHANGED <<stderr, exit_code>>
    /\ UNCHANGED <<pkg, check_only, file, remote, current, latest, updates, stdout,
                   run, file0, prev, call>>

FetchTorPage == FetchPage("tor")

FetchGithubPage == \E p \in PackageSet \ {"tor"} : FetchPage(p)

\* resolve_latest_versions: pick_latest on the fetched tags, the None test, latest[p] = ...
PickLatest ==
    /\ pc = "pick"
    /\ LET p == PACKAGES[pkg]
           r == pick_latest(tags, p)
       IN  IF pick_fails(r)
           THEN /\ stderr' = Append(stderr, Line("Error: Could not determine", p, <<>>, <<>>))
                /\ exit_code' = 2
                /\ pc' = "done"
                /\ UNCHANGED <<latest, pkg, page, tags>>
           ELSE /\ latest' = dict_set(latest, p, r.val)
                /\ IF pkg < Len(PACKAGES)
                   THEN /\ pkg' = pkg + 1
                        /\ pc' = "fetch"
                        /\ page' = 1
                        /\ tags' = <<>>
                   ELSE /\ pc' = "check"
                        /\ UNCHANGED <<pkg, page, tags>>
                /\ UNCHANGED <<stderr, exit_code>>
    /\ UNCHANGED <<check_only, file, remote, current, updates, stdout, trace,
                   run, file0, prev, call>>

\* main: updates = check_updates(current, latest)
CheckUpdates ==
    /\ pc = "check"
    /\ updates' = check_updates(current, latest)
    /\ pc' = "report"
    /\ UNCHANGED <<pkg, check_only, file, remote, current, latest, tags, page, exit_code,
                   stdout, stderr, trace, run, file0, prev, call>>

RECURSIVE print_updates(_, _, _)
print_updates(out, ups, i) ==
    IF i > Len(ups) THEN out ELSE print_updates(Append(out, UpdateLine(ups[i])), ups, i + 1)

\* main: the report, and the return of the up-to-date and the check-only case.
Report ==
    /\ pc = "report"
    /\ IF updates = <<>>
       THEN /\ stdout' = Append(stdout, Line("versions.json is up to date", "", <<>>, <<>>))
            /\ exit_code' = 0
            /\ pc' = "done"
       ELSE /\ stdout' = print_updates(
                             Append(stdout, Line("Updates available:", "", <<>>, <<>>)),
                             updates, 1)
            /\ IF writes_store(check_only)
               THEN /\ pc' = "write"
                    /\ UNCHANGED exit_code
               ELSE /\ exit_code' = 1
                    /\ pc' = "done"
    /\ UNCHANGED <<pkg, check_only, file, remote, current, latest, tags, page, updates,
                   stderr, trace, run, file0, prev, call>>

\* main: merged = dict(current) with the updates applied, write_versions, return 0.
WriteVersions ==
    /\ pc = "write"
    /\ file' = write_versions(merge_updates(current, updates))
    /\ trace' = Append(trace, Event("write", "", 0))
    /\ stdout' = Append(stdout, Line("Updated", "", <<>>, <<>>))
    /\ exit_code' = 0
    /\ pc' = "done"
    /\ UNCHANGED <<pkg, check_only, remote, current, latest, tags, page, updates,
                   stderr, run, file0, prev, call>>

\* The program is invoked again on the same store file and the same endpoints, after
\* a run that returned 0.  (A run that returned 1 or 2 wrote nothing and keeps no
\* state: the invocation after it starts in an initial state.)
Rerun ==
    /\ pc = "done"
    /\ exit_code = 0
    /\ run < MaxRuns
    /\ run' = run + 1
    /\ prev' = [ran |-> TRUE, exit_code |-> exit_code, check_only |-> check_only,
                wrote |-> \E i \in 1..Len(trace) : trace[i].what = "write"]
    /\ check_only' \in BOOLEAN
    /\ file0' = file
    /\ pc' = "read"
    /\ pkg' = 0
    /\ current' = <<>>
    /\ latest' = <<>>
    /\ tags' = <<>>
    /\ page' = 0
    /\ updates' = <<>>
    /\ exit_code' = -1
    /\ stdout' = <<>>
    /\ stderr' = <<>>
    /\ trace' = <<>>
    /\ UNCHANGED <<file, remote, call>>

\* The steps of one run of main.
NextStep ==
    \/ ReadVersions
    \/ FetchTorPage
    \/ FetchGithubPage
    \/ PickLatest
    \/ CheckUpdates
    \/ Report
    \/ WriteVersions

Next ==
    \/ NextStep
    \/ Rerun

(***************************************************************************)
(* Inputs of main: store files and endpoint contents.                      *)
(***************************************************************************)
V_OLD == <<"1", ".", "2", ".", "0">>
V_MID == <<"1", ".", "9", ".", "5">>
V_NEW == <<"1", ".", "1", "0", ".", "0">>
RC_SUFFIX == <<"-", "r", "c", "1">>

Prefix(p) ==
    CASE p = "tor" -> TOR_PREFIX
      [] p = "unbound" -> UNBOUND_PREFIX
      [] p = "wghttp" -> WGHTTP_PREFIX
      [] OTHER -> <<>>

Old(p) == Prefix(p) \o V_OLD
Mid(p) == Prefix(p) \o V_MID
New(p) == Prefix(p) \o V_NEW
NewRC(p) == Prefix(p) \o <<"1", ".", "1", "1", ".", "0">> \o RC_SUFFIX

\* The contents an endpoint can have: 1 fails on page 2; 2 serves only a release
\* candidate and then a value that is no list; 3 resolves to Old(p); 4 resolves to
\* New(p), listed between two older versions.
RemoteChoice(p, c) ==
    CASE c = 1 -> << ListPage(<<NameItem(Old(p)), NameItem(NewRC(p))>>), ErrorPage >>
      [] c = 2 -> << ListPage(<<NameItem(NewRC(p)), NonDictItem>>), NonListPage,
                     ListPage(<<NameItem(New(p))>>) >>
      [] c = 3 -> << ListPage(<<NameItem(Old(p)), NonDictItem, NameItem(NewRC(p))>>) >>
      [] OTHER -> << ListPage(<<NameItem(Old(p)), NoNameItem, NameItem(New(p)),
                                NameItem(Mid(p))>>) >>

\* One content per package.  A run ends at the first endpoint of content 1 or 2, so
\* the endpoints after it, which differ in nothing the run can observe, have content 3.
RemoteChoices ==
    {cs \in [1..Len(PACKAGES) -> 1..4] :
        \A i \in 1..Len(PACKAGES) : (\E j \in 1..(i - 1) : cs[j] <= 2) => cs[i] = 3}

RemoteOf(cs) ==
    [p \in PackageSet |-> RemoteChoice(p, cs[CHOOSE i \in 1..Len(PACKAGES) : PACKAGES[i] = p])]

STORE_KEYS == <<"extra", "tor", "unbound", "udp2raw", "wghttp">>

\* A tracked key holds Old(k) or a value that is no string; the untracked key a string.
StoreValues(k) ==
    IF k \in PackageSet
    THEN {Member(k, TRUE, Old(k)), Member(k, FALSE, <<>>)}
    ELSE {Member(k, TRUE, <<"x">>)}

\* Strictly increasing index sequences of length n into STORE_KEYS.
KeyChoices(n) ==
    {ks \in [1..n -> 1..Len(STORE_KEYS)] : \A i \in 1..n : \A j \in 1..n : i < j => ks[i] < ks[j]}

ObjectsOver(ks) ==
    {ms \in [1..Len(ks) -> UNION {StoreValues(STORE_KEYS[ks[i]]) : i \in 1..Len(ks)}] :
        \A i \in 1..Len(ks) : ms[i].key = STORE_KEYS[ks[i]]}

StoreObjects ==
    UNION {UNION {ObjectsOver(ks) : ks \in KeyChoices(n)} : n \in 0..MaxStoreEntries}

StoreFiles ==
    {[kind |-> "invalid", members |-> <<>>], [kind |-> "nonobject", members |-> <<>>]}
    \cup {[kind |-> "object", members |-> ms] : ms \in StoreObjects}

Init ==
    /\ pc = "read"
    /\ pkg = 0
    /\ check_only \in BOOLEAN
    /\ file \in StoreFiles
    /\ \E cs \in RemoteChoices :
          /\ file.kind # "object" => \A i \in 1..Len(PACKAGES) : cs[i] = 3
          /\ remote = RemoteOf(cs)
    /\ current = <<>>
    /\ latest = <<>>
    /\ tags = <<>>
    /\ page = 0
    /\ updates = <<>>
    /\ exit_code = -1
    /\ stdout = <<>>
    /\ stderr = <<>>
    /\ trace = <<>>
    /\ run = 1
    /\ file0 = file
    /\ prev = NoPrev
    /\ call = NoCall

Spec == Init /\ [][Next]_vars

(***************************************************************************)
(* The fetch specification: one run of main on a store that reads, where   *)
(* one endpoint                                                            *)
(* (the one of fetch_tor_tags, or one of fetch_github_tags) serves any     *)
(* run of list pages, then possibly a page that stops or fails the loop,   *)
(* then possibly one more list page.                                       *)
(***************************************************************************)
PageA(p, i) == ListPage(<<NameItem(Prefix(p) \o <<"1", ".", DIGITS[i + 1]>>), NonDictItem>>)

PageB(p, i) == ListPage(<<NoNameItem, NameItem(Prefix(p) \o <<"1", ".", DIGITS[i + 1]>> \o RC_SUFFIX)>>)

ListRun(p, ab) == [i \in 1..Len(ab) |-> IF ab[i] = "A" THEN PageA(p, i) ELSE PageB(p, i)]

STOP_PAGES == {ErrorPage, NonListPage, ListPage(<<>>)}

PageTails(p, k) ==
    {<<>>}
    \cup (IF k + 1 <= MaxRemoteLen THEN {<<s>> : s \in STOP_PAGES} ELSE {})
    \cup (IF k + 2 <= MaxRemoteLen THEN {<<s, PageA(p, k + 2)>> : s \in STOP_PAGES} ELSE {})

InitFetch ==
    /\ pc = "read"
    /\ pkg = 0
    /\ check_only = FALSE
    /\ file = [kind |-> "object",
               members |-> <<Member("tor", TRUE, Old("tor")), Member("unbound", TRUE, Old("unbound"))>>]
    /\ \E f \in {"tor", "unbound"} : \E k \in 0..MaxRemoteLen :
          \E ab \in [1..k -> {"A", "B"}] : \E t \in PageTails(f, k) :
             remote = [p \in PackageSet |-> IF p = f THEN ListRun(f, ab) \o t
                                            ELSE RemoteChoice(p, 4)]
    /\ current = <<>>
    /\ latest = <<>>
    /\ tags = <<>>
    /\ page = 0
    /\ updates = <<>>
    /\ exit_code = -1
    /\ stdout = <<>>
    /\ stderr = <<>>
    /\ trace = <<>>
    /\ run = 1
    /\ file0 = file
    /\ prev = NoPrev
    /\ call = NoCall

SpecFetch == InitFetch /\ [][NextStep]_vars

(***************************************************************************)
(* Direct calls of is_stable_tag, of the normalizers and of pick_latest.   *)
(***************************************************************************)
CallIsStable ==
    /\ call.fn = "is_stable_tag"
    /\ ~ call.done
    /\ call' = [call EXCEPT !.done = TRUE, !.stable = is_stable_tag(call.tags[1])]
    /\ UNCHANGED mainvars

CallNormalizer ==
    /\ call.fn = "normalize"
    /\ ~ call.done
    /\ call' = [call EXCEPT !.done = TRUE, !.ret = normalizer(call.pkg, call.tags[1])]
    /\ UNCHANGED mainvars

CallPickLatest ==
    /\ call.fn = "pick_latest"
    /\ ~ call.done
    /\ call' = [call EXCEPT !.done = TRUE, !.ret = pick_latest(call.tags, call.pkg)]
    /\ UNCHANGED mainvars

NextPure ==
    \/ CallIsStable
    \/ CallNormalizer
    \/ CallPickLatest

UpperChar(c) ==
    IF \E i \in 1..26 : LOWER[i] = c
    THEN UPPER[CHOOSE i \in 1..26 : LOWER[i] = c]
    ELSE c

\* Each keyword in lower case, in upper case and capitalized, and near misses.
KeywordSpellings ==
    UNION {{SKIP_KEYWORDS[k],
            [i \in 1..Len(SKIP_KEYWORDS[k]) |-> UpperChar(SKIP_KEYWORDS[k][i])],
            [i \in 1..Len(SKIP_KEYWORDS[k]) |->
                IF i = 1 THEN UpperChar(SKIP_KEYWORDS[k][i]) ELSE SKIP_KEYWORDS[k][i]]} :
           k \in 1..Len(SKIP_KEYWORDS)}
    \cup {<<"r">>, <<"a", "l", "p", "h">>, <<"b", "e", "t">>, <<"d", "e">>, <<"R", "-", "C">>,
          <<"s", "n", "a", "p">>, <<"p", "r">>, <<>>}

StabilityTags ==
    {a \o w \o b : a \in {<<>>, Old("tor") \o <<"-">>, <<"v", "1", ".", "0">>},
                   w \in KeywordSpellings,
                   b \in {<<>>, <<"1">>}}

BODY_CHARS == {"1", ".", "a"}

TagPrefixes ==
    {<<>>, TOR_PREFIX, UNBOUND_PREFIX, WGHTTP_PREFIX, <<"t", "o", "r">>, <<"T", "o", "r", "-">>,
     <<"x">> \o TOR_PREFIX}

PickPool(p) ==
    {Old(p), Mid(p), New(p),
     Prefix(p) \o <<"0", "1", ".", "1", "0", ".", "0">>,
     Prefix(p) \o <<"1", ".", "1", "0">>,
     Prefix(p) \o <<"2">>,
     Prefix(p) \o <<"1", ".", "1", "2", "-", "R", "C">>,
     <<"x">> \o V_NEW}

InitPure ==
    /\ pc = "idle"
    /\ pkg = 0
    /\ check_only = FALSE
    /\ file = [kind |-> "invalid", members |-> <<>>]
    /\ remote = [p \in PackageSet |-> <<>>]
    /\ current = <<>>
    /\ latest = <<>>
    /\ tags = <<>>
    /\ page = 0
    /\ updates = <<>>
    /\ exit_code = -1
    /\ stdout = <<>>
    /\ stderr = <<>>
    /\ trace = <<>>
    /\ run = 0
    /\ file0 = file
    /\ prev = NoPrev
    /\ \/ \E t \in StabilityTags :
             call = [NoCall EXCEPT !.fn = "is_stable_tag", !.tags = <<t>>]
       \/ \E p \in PackageSet : \E a \in TagPrefixes : \E n \in 0..MaxBodyLen :
             \E b \in [1..n -> BODY_CHARS] :
                call = [NoCall EXCEPT !.fn = "normalize", !.pkg = p, !.tags = <<a \o b>>]
       \/ \E p \in PackageSet : \E n \in 0..MaxTags : \E ts \in [1..n -> PickPool(p)] :
             call = [NoCall EXCEPT !.fn = "pick_latest", !.pkg = p, !.tags = ts]

SpecPure == InitPure /\ [][NextPure]_vars

(***************************************************************************)
(* What a run is given, read off the store file and the endpoints without  *)
(* the program: the string members of the store, and for each endpoint the *)
(* page that stops the loop and the tags served before it.                 *)
(***************************************************************************)
Wrote == \E i \in 1..Len(trace) : trace[i].what = "write"

LoadedKeys == {file0.members[i].key : i \in {j \in 1..Len(file0.members) : file0.members[j].str}}

Loaded(k) == file0.members[CHOOSE i \in 1..Len(file0.members) :
                              file0.members[i].key = k /\ file0.members[i].str].val

Latest(k) == latest[CHOOSE i \in 1..Len(latest) : latest[i][1] = k][2]

Resolved == {latest[i][1] : i \in 1..Len(latest)} = PackageSet

Outdated == {k \in LoadedKeys \cap PackageSet : Loaded(k) # Latest(k)}

IsFullPage(d) == d.kind = "list" /\ Len(d.items) > 0

\* The first page that is no non-empty list; max_pages + 1 when pages 1..max_pages all are.
StopPage(p) ==
    IF \A n \in 1..max_pages : IsFullPage(fetch_json(p, n)) THEN max_pages + 1
    ELSE CHOOSE n \in 1..max_pages :
            /\ ~ IsFullPage(fetch_json(p, n))
            /\ \A m \in 1..(n - 1) : IsFullPage(fetch_json(p, m))

FetchErrors(p) == StopPage(p) <= max_pages /\ fetch_json(p, StopPage(p)).kind = "error"

\* <<page, item>> positions of the names served before the stopping page.
ServedAt(p) ==
    UNION {{<<n, i>> : i \in {j \in 1..Len(fetch_json(p, n).items) :
                                /\ fetch_json(p, n).items[j].dict
                                /\ fetch_json(p, n).items[j].strname}} :
           n \in 1..(StopPage(p) - 1)}

ServedName(p, ni) == fetch_json(p, ni[1]).items[ni[2]].name

HasKeyword(tag) ==
    \E k \in 1..Len(SKIP_KEYWORDS) : \E off \in 0..(Len(tag) - Len(SKIP_KEYWORDS[k])) :
        \A j \in 1..Len(SKIP_KEYWORDS[k]) :
            tag[off + j] \in {SKIP_KEYWORDS[k][j], UpperChar(SKIP_KEYWORDS[k][j])}

\* prefix, then at least `groups` non-empty groups of digits separated by single dots
DottedAfter(tag, prefix, groups) ==
    LET n == Len(prefix)
        dots == {i \in (n + 1)..Len(tag) : tag[i] = "."}
    IN  /\ Len(tag) > n
        /\ \A i \in 1..n : tag[i] = prefix[i]
        /\ \A i \in (n + 1)..Len(tag) : IsDigit(tag[i]) \/ tag[i] = "."
        /\ tag[n + 1] # "." /\ tag[Len(tag)] # "."
        /\ \A i \in dots : (i + 1) \notin dots
        /\ Cardinality(dots) + 1 >= groups

Accepted(p, tag) == DottedAfter(tag, Prefix(p), 2)

HasCandidate(p) ==
    \E ni \in ServedAt(p) : ~ HasKeyword(ServedName(p, ni)) /\ Accepted(p, ServedName(p, ni))

PackageFails(p) == FetchErrors(p) \/ ~ HasCandidate(p)

(***************************************************************************)
(* Claims about main.                                                      *)
(***************************************************************************)
\* C1: in a run with check-only mode the store file is never written, so its content
\* stays the content at the start of the run; and when the run found at least one
\* update it printed a line for each of them and returned exit code 1.
C1_CheckOnlyLeavesStore ==
    check_only =>
        /\ file = file0
        /\ ~ Wrote
        /\ pc # "write"
        /\ (pc = "done" /\ Resolved /\ Outdated # {}) =>
              /\ exit_code = 1
              /\ \A k \in Outdated :
                    \E i \in 1..Len(stdout) : stdout[i] = Line("- pkg: cur -> lat", k, Loaded(k), Latest(k))

C1_Witness ==
    /\ check_only
    /\ pc = "done"
    /\ exit_code = 1
    /\ Cardinality(Outdated) >= 2
    /\ Len(stdout) >= 3

C3_WrittenMapping ==
    (pc = "done" /\ ~ check_only /\ Resolved /\ Outdated # {}) =>
        /\ exit_code = 0
        /\ Wrote
        /\ file.kind = "object"
        /\ \A i \in 1..Len(file.members) : file.members[i].str
        /\ {file.members[i].key : i \in 1..Len(file.members)} = LoadedKeys
        /\ Len(file.members) = Cardinality(LoadedKeys)
        /\ \A i \in 1..Len(file.members) :
              LET k == file.members[i].key
              IN  file.members[i].val = IF k \in Outdated THEN Latest(k) ELSE Loaded(k)

C3_Witness ==
    /\ pc = "done"
    /\ ~ check_only
    /\ exit_code = 0
    /\ Wrote
    /\ "extra" \in LoadedKeys
    /\ Cardinality(Outdated) = 1
    /\ PackageSet \ LoadedKeys # {}

\* C4: when every tracked package in the loaded store holds the resolved latest version,
\* check_updates returns the empty list and the run returns exit code 0 without writing,
\* with and without check-only mode; and exit code 0 is returned only when no update
\* was found or the store was written.
C4_UpToDate ==
    /\ (pc \in {"report", "write", "done"} /\ Resolved /\ Outdated = {}) =>
          /\ updates = <<>>
          /\ pc # "write"
          /\ file = file0
          /\ ~ Wrote
          /\ pc = "done" => exit_code = 0
    /\ exit_code = 0 => (Resolved /\ (Outdated = {} \/ Wrote))

C4_Witness ==
    /\ pc = "done"
    /\ exit_code = 0
    /\ updates = <<>>
    /\ ~ Wrote
    /\ LoadedKeys \cap PackageSet # {}
    /\ run = 1

PackageIndex(p) == CHOOSE i \in 1..Len(PACKAGES) : PACKAGES[i] = p

\* C9: the store is read exactly once, before any request; requests go to the packages
\* in the order tor, unbound, udp2raw, wghttp, and to a package only when every package
\* before it resolved, so the first failing package gets the last request of the run;
\* the store is written at most once, as the last step, after all four packages
\* resolved and the diff was computed.  (The events of a run are only ever appended
\* to, so the requests are judged against the endpoints when the run has ended.)
C9_FixedOrder ==
    /\ pc # "read" => (Len(trace) >= 1 /\ trace[1].what = "read")
    /\ \A i \in 2..Len(trace) : trace[i].what # "read"
    /\ \A i \in 1..Len(trace) : \A j \in 1..Len(trace) :
          (i < j /\ trace[i].what = "request" /\ trace[j].what = "request") =>
              PackageIndex(trace[i].pkg) <= PackageIndex(trace[j].pkg)
    /\ \A i \in 1..Len(trace) : trace[i].what = "request" => file0.kind = "object"
    /\ pc = "done" =>
          LET failing == {p \in PackageSet : PackageFails(p)}
          IN  \A i \in 1..Len(trace) :
                  trace[i].what = "request" =>
                      \A m \in 1..(PackageIndex(trace[i].pkg) - 1) : PACKAGES[m] \notin failing
    /\ \A i \in 1..Len(trace) :
          trace[i].what = "write" =>
              /\ i = Len(trace)
              /\ \A j \in 1..(i - 1) : trace[j].what # "write"
              /\ pc = "done"
              /\ Resolved
              /\ \A p \in PackageSet : \E j \in 1..(i - 1) : trace[j] = Event("request", p, 1)
              /\ updates # <<>>
    /\ (pc = "done" /\ exit_code = 2 /\ file0.kind = "object") =>
          /\ trace[Len(trace)].what = "request"
          /\ PackageFails(trace[Len(trace)].pkg)

C9_Witness ==
    /\ pc = "done"
    /\ exit_code = 2
    /\ Len(latest) = 2
    /\ PackageFails("udp2raw")
    /\ \A i \in 1..Len(trace) : trace[i].pkg # "wghttp"

\* C10: after a run without check-only mode that returned exit code 0, a second run on
\* the same store file and the same endpoints, with or without check-only mode, finds
\* no update, returns exit code 0 and does not write; and right after a write every
\* tracked package in the store holds the resolved latest version.
C10_SecondRunIdle ==
    /\ (prev.ran /\ prev.exit_code = 0 /\ ~ prev.check_only) =>
          /\ file = file0
          /\ ~ Wrote
          /\ exit_code \in {-1, 0}
          /\ updates = <<>>
          /\ pc \notin {"write", "idle"}
    /\ (pc = "done" /\ Wrote) =>
          \A i \in 1..Len(file.members) :
              file.members[i].key \in PackageSet => file.members[i].val = Latest(file.members[i].key)

C10_Witness ==
    /\ run = 2
    /\ prev.ran
    /\ prev.wrote
    /\ ~ prev.check_only
    /\ pc = "done"
    /\ exit_code = 0

(***************************************************************************)
(* Claim about the page loop, checked under SpecFetch.                     *)
(***************************************************************************)
RequestsTo(p) == SelectSeq(trace, LAMBDA e : e.what = "request" /\ e.pkg = p)

\* The names served before the stopping page, in page order and item order.
RECURSIVE served_in_order(_, _, _)
served_in_order(p, n, out) ==
    IF n >= StopPage(p) THEN out
    ELSE served_in_order(p, n + 1,
            out \o [i \in 1..Cardinality({ni \in ServedAt(p) : ni[1] = n}) |->
                      ServedName(p, CHOOSE ni \in ServedAt(p) :
                          /\ ni[1] = n
                          /\ Cardinality({mi \in ServedAt(p) : mi[1] = n /\ mi[2] < ni[2]}) = i - 1)])

\* C8: a fetch requests pages 1, 2, 3, ... in order, at most max_pages of them and none
\* after the first page that is an empty list or no list, where it stops without error;
\* it returns the string names of the dict items of the pages before that page, in page
\* order; and a run that stopped this way fails only if the package has no candidate.
C8_PageLoop ==
    pkg >= 1 =>
        LET p == PACKAGES[pkg]
            reqs == RequestsTo(p)
            stop == StopPage(p)
        IN  /\ \A i \in 1..Len(reqs) : reqs[i].page = i
            /\ Len(reqs) <= max_pages
            /\ Len(reqs) <= stop
            /\ pc = "fetch" => (page = Len(reqs) + 1 /\ page <= max_pages)
            /\ pc = "pick" =>
                  /\ Len(reqs) = IF stop > max_pages THEN max_pages ELSE stop
                  /\ ~ FetchErrors(p)
                  /\ tags = served_in_order(p, 1, <<>>)
            /\ (pc = "done" /\ exit_code = 2 /\ ~ FetchErrors(p)) =>
                  /\ Len(reqs) = IF stop > max_pages THEN max_pages ELSE stop
                  /\ ~ HasCandidate(p)
                  /\ stderr = <<Line("Error: Could not determine", p, <<>>, <<>>)>>
            /\ (pc = "done" /\ exit_code # 2) =>
                  \A q \in PackageSet : HasCandidate(q) /\ ~ FetchErrors(q)

C8_Witness ==
    /\ pc = "pick"
    /\ StopPage(PACKAGES[pkg]) = 3
    /\ Len(RequestsTo(PACKAGES[pkg])) = 3
    /\ fetch_json(PACKAGES[pkg], 3).kind = "nonlist"
    /\ Len(remote[PACKAGES[pkg]]) = 4
    /\ Len(tags) = 2

(***************************************************************************)
(* Claims about pick_latest and the normalizers, checked under SpecPure.   *)
(***************************************************************************)
\* a >= b in the ordering of tuples: not (a is a proper prefix of b, or a is smaller
\* at the first component where they differ).
TupleGE(a, b) ==
    ~ \E k \in 1..Len(b) :
          /\ \A m \in 1..(k - 1) : m <= Len(a) /\ a[m] = b[m]
          /\ k - 1 <= Len(a)
          /\ (k > Len(a) \/ a[k] < b[k])

CandidateIndexes ==
    {i \in 1..Len(call.tags) : ~ HasKeyword(call.tags[i]) /\ Accepted(call.pkg, call.tags[i])}

\* C5: pick_latest returns none exactly when no tag is stable and normalized; otherwise
\* it returns a candidate whose tuple of digit runs is greater than or equal to the tuple
\* of every candidate; among tor-1.2.0, tor-1.10.0 and tor-1.9.5 that is tor-1.10.0.
C5_PicksGreatestTuple ==
    (call.fn = "pick_latest" /\ call.done) =>
        /\ call.ret.some <=> CandidateIndexes # {}
        /\ call.ret.some =>
              \E i \in CandidateIndexes :
                  /\ call.ret.val = call.tags[i]
                  /\ \A j \in CandidateIndexes :
                        TupleGE(version_key(call.tags[i]), version_key(call.tags[j]))
        /\ (call.pkg = "tor" /\ {call.tags[i] : i \in 1..Len(call.tags)} = {Old("tor"), New("tor"), Mid("tor")})
              => call.ret = Some(New("tor"))

C5_Witness ==
    /\ call.fn = "pick_latest"
    /\ call.done
    /\ call.tags = <<Old("tor"), New("tor"), Mid("tor")>>
    /\ call.pkg = "tor"
    /\ call.ret = Some(<<"t", "o", "r", "-", "1", ".", "1", "0", ".", "0">>)

\* C6 as stated: normalize_tor_tag returns every tag of the form tor-<digits>(.<digits>)*
\* unchanged and rejects every tag without the prefix or with a non-numeric segment.
C6_OneGroupAccepted ==
    (call.fn = "normalize" /\ call.pkg = "tor" /\ call.done) =>
        IF DottedAfter(call.tags[1], TOR_PREFIX, 1)
        THEN call.ret = Some(call.tags[1])
        ELSE call.ret = None

\* C6 amended: normalize_tor_tag returns every tag of the form tor-<digits>(.<digits>)+,
\* at least two groups of digits, unchanged, and rejects every other tag: one without
\* the prefix, with a non-numeric or empty segment, or with a single group of digits.
C6_TwoGroupsAccepted ==
    (call.fn = "normalize" /\ call.pkg = "tor" /\ call.done) =>
        IF DottedAfter(call.tags[1], TOR_PREFIX, 2)
        THEN call.ret = Some(call.tags[1])
        ELSE call.ret = None

C6_Witness ==
    /\ call.fn = "normalize"
    /\ call.pkg = "tor"
    /\ call.done
    /\ call.tags[1] = TOR_PREFIX \o <<"1", ".", "1", ".", "1">>
    /\ call.ret = Some(call.tags[1])

\* C7: a result of pick_latest is one of the input tags, unchanged, accepted by the
\* package's normalizer and free of the pre-release substrings in any letter case; and
\* is_stable_tag rejects every tag that contains one of them in any letter case.
C7_StableOnly ==
    /\ (call.fn = "pick_latest" /\ call.done /\ call.ret.some) =>
          /\ \E i \in 1..Len(call.tags) : call.tags[i] = call.ret.val
          /\ Accepted(call.pkg, call.ret.val)
          /\ ~ HasKeyword(call.ret.val)
    /\ (call.fn = "is_stable_tag" /\ call.done) => (call.stable <=> ~ HasKeyword(call.tags[1]))

C7_Witness ==
    /\ call.fn = "pick_latest"
    /\ call.done
    /\ call.ret.some
    /\ \E i \in 1..Len(call.tags) : str_contains(<<"R", "C">>, call.tags[i])

====
